---- MODULE Spec2Model ----
(***************************************************************************)
(* The agent execution engine of workshop-langgraph-mcp: the three graph   *)
(* variants (main.py, 04_mcp_http_external_package.py,                     *)
(* 01_no_mcp_langgraph_agent.py), the startup validation of MCP servers,   *)
(* and the per-thread conversation kept by the MemorySaver checkpointer.   *)
(*                                                                         *)
(* The graph library calls the source makes (add_messages, tools_condition,*)
(* ToolNode, MemorySaver, the Pregel step loop) are modelled by what they  *)
(* do at the call sites named in MODEL_MAP.json.  streaming_utils          *)
(* (chat_endpoint_handler, truncate_messages_safely) is not among the      *)
(* source files; its definitions are modelled from the specification.      *)
(***************************************************************************)
EXTENDS Integers, Sequences, FiniteSets, TLC

VARIABLES
    variant,             \* which source file is running
    engine,              \* behaviour of the opaque LLM: "varied" or "runaway"
    alive,               \* the MCP servers whose get_tools() probe succeeds
    hung,                \* the MCP servers whose get_tools() probe never returns
    listed,              \* the tool name each MCP server lists
    boot,                \* position of setup_langgraph_app
    vi,                  \* validate_servers: index of the next server to probe
    successful_servers,  \* validate_servers: the dict being built, in order
    app_tools,           \* the tools the compiled graph was built from
    store,               \* MemorySaver: thread_id -> latest checkpointed state
    pc,                  \* per request: the graph node about to run
    thr,                 \* per request: its thread_id
    st,                  \* per request: the channel values of its run
    steps,               \* per request: supersteps executed in this turn
    base,                \* per request: store[thread] as it was at turn start
    turn,                \* per request: number of the turn it runs
    uid,                 \* per request: its next unused identifier (message ids, tool-call ids)
    prompt,              \* per request: the list its assistant node last handed to the LLM
    ran,                 \* per request: the tool calls ToolNode has run, with the server each went to
    arg,                 \* per request: the state object its last node was called with, as the node left it
    ctxHistory,          \* context window: a history given to truncate
    ctxBudget,           \* context window: the budget given with it
    ctxKept,             \* context window: what truncate returned last
    ctxApplied           \* context window: how often truncate has been applied

vars == <<variant, engine, alive, hung, listed, boot, vi, successful_servers, app_tools,
          store, pc, thr, st, steps, base, turn, uid, prompt, ran, arg,
          ctxHistory, ctxBudget, ctxKept, ctxApplied>>

ctxVars  == <<ctxHistory, ctxBudget, ctxKept, ctxApplied>>
bootVars == <<boot, vi, successful_servers, app_tools>>
envVars  == <<variant, engine, alive, hung, listed>>

(***************************************************************************)
(* Bounds of the model.                                                    *)
(***************************************************************************)
MaxCalls == 2          \* tool calls a varied LLM asks for, all turns together
MaxMessages == 4       \* the budget of truncate_messages_safely, in messages
MaxLen == 4            \* length of the histories truncate is applied to on its own

(***************************************************************************)
(* Program constants.                                                      *)
(***************************************************************************)
\* langgraph's default recursion_limit: neither build_graph nor the config
\* of the 01 script sets another one.
RecursionLimit == 25

Variants == {"main", "http", "gated"}
Threads  == {"t1", "t2"}
\* The requests of a behaviour, each one turn: r1 is the one that arrives
\* first, and t1 the thread_id it names.
Reqs     == {"r1", "r2"}
TurnOf(r) == IF r = "r1" THEN 1 ELSE 2

\* ------------------------------------------------------------------------
\* Startup: the servers, their validation, the graph's tools
\* ------------------------------------------------------------------------

\* all_servers of setup_langgraph_app, as the ordered dict it is.
all_servers(v) ==
    CASE v = "main" -> << [name |-> "local_math",    config |-> "stdio:python math_server.py"],
                          [name |-> "local_weather", config |-> "stdio:python weather_server.py"],
                          [name |-> "office_word",   config |-> "stdio:uv word_mcp_server"] >>
      [] v = "http" -> << [name |-> "supabase", config |-> "streamable_http:railway"] >>
      [] OTHER      -> << >>

ServerNames(v) == { all_servers(v)[i].name : i \in 1..Len(all_servers(v)) }

\* The tool a server lists, by the names the source files give them.
DefaultTool(name) ==
    CASE name = "local_math"    -> "multiply"
      [] name = "local_weather" -> "get_weather"
      [] name = "office_word"   -> "create_document"
      [] name = "supabase"      -> "execute_sql"
      [] OTHER                  -> "none"

\* What the servers can list: the names above, or, in main.py, the external
\* package office_word listing a tool under the name local_math uses.  A
\* server that does not answer lists nothing, so the second listing is told
\* apart only where both servers answer.
Listings(v, live) ==
    { [n \in ServerNames(v) |-> DefaultTool(n)] } \cup
    (IF v = "main" /\ {"local_math", "office_word"} \subseteq live
     THEN { [n \in ServerNames(v) |-> IF n = "office_word" THEN "multiply" ELSE DefaultTool(n)] }
     ELSE {})

ServerTool(name) == listed[name]

\* tools = [add, multiply, divide] of the 01 script.
LocalTools ==
    << [name |-> "add", server |-> "local"],
       [name |-> "multiply", server |-> "local"],
       [name |-> "divide", server |-> "local"] >>

\* MultiServerMCPClient(servers).get_tools(): the servers' tools, in the
\* servers' order.
RECURSIVE get_tools(_)
get_tools(servers) ==
    IF servers = << >> THEN << >>
    ELSE << [name |-> ServerTool(Head(servers).name), server |-> Head(servers).name] >>
         \o get_tools(Tail(servers))

\* The probe of validate_servers: MultiServerMCPClient({name: config}).get_tools()
\* returns for a live server and raises for any other.
ProbeSucceeds(server) == server.name \in alive

\* await test_client.get_tools() has no timeout around it: a server that
\* starts and never answers keeps the await, and with it the loop, waiting.
ProbeHangs(server) == server.name \in hung

\* A validate_servers without the try/except: the exception leaves it.
ProbeFailureRaises == "crashed"

\* What the except clause of validate_servers does with a failed probe:
\* print and go on with the next server.
ProbeFailureOutcome == "validating"

\* One iteration of the for loop of validate_servers.
ValidateStep ==
    /\ boot = "validating"
    /\ vi <= Len(all_servers(variant))
    /\ ~ProbeHangs(all_servers(variant)[vi])
    /\ LET server == all_servers(variant)[vi] IN
       IF ProbeSucceeds(server)
       THEN /\ successful_servers' = Append(successful_servers, server)
            /\ vi' = vi + 1
            /\ boot' = boot
       ELSE /\ successful_servers' = successful_servers
            /\ vi' = vi + 1
            /\ boot' = ProbeFailureOutcome
    /\ UNCHANGED <<envVars, ctxVars, app_tools, store, pc, thr, st, steps, base, turn, uid, prompt, ran, arg>>

\* return successful_servers
ValidateReturn ==
    /\ boot = "validating"
    /\ vi > Len(all_servers(variant))
    /\ boot' = "validated"
    /\ UNCHANGED <<envVars, ctxVars, vi, successful_servers, app_tools,
                   store, pc, thr, st, steps, base, turn, uid, prompt, ran, arg>>

\* A test that takes the dict itself, empty or not, for success.
HasServersAlways(servers) == Len(servers) >= 0

\* The truth test of "if successful_servers:".
HasServers(servers) == Len(servers) > 0

\* setup_langgraph_app after validate_servers: build the graph from the
\* surviving servers' tools, or raise RuntimeError.
SetupBuild ==
    /\ boot = "validated"
    /\ HasServers(successful_servers)
    /\ app_tools' = get_tools(successful_servers)
    /\ boot' = "ready"
    /\ UNCHANGED <<envVars, ctxVars, vi, successful_servers,
                   store, pc, thr, st, steps, base, turn, uid, prompt, ran, arg>>

SetupRaise ==
    /\ boot = "validated"
    /\ ~HasServers(successful_servers)
    /\ boot' = "config_error"
    /\ UNCHANGED <<envVars, ctxVars, vi, successful_servers, app_tools,
                   store, pc, thr, st, steps, base, turn, uid, prompt, ran, arg>>

\* ------------------------------------------------------------------------
\* Messages and the add_messages reducer
\* ------------------------------------------------------------------------

NoResult == [status |-> "none", kind |-> "none", num |-> 0, den |-> 1]

\* id = 0 stands for a message that has no id yet (id is None).
HumanMessage(t) ==
    [role |-> "human", id |-> 0, turn |-> t, calls |-> << >>,
     call_id |-> 0, result |-> NoResult, refusal |-> FALSE]

AIMessage(t, calls, mid) ==
    [role |-> "ai", id |-> mid, turn |-> t, calls |-> calls,
     call_id |-> 0, result |-> NoResult, refusal |-> FALSE]

\* AIMessage(content="I can only help with math questions ...")
RefusalMessage(t) ==
    [role |-> "ai", id |-> 0, turn |-> t, calls |-> << >>,
     call_id |-> 0, result |-> NoResult, refusal |-> TRUE]

ToolMessage(t, call, result) ==
    [role |-> "tool", id |-> 0, turn |-> t, calls |-> << >>,
     call_id |-> call.id, result |-> result, refusal |-> FALSE]

RECURSIVE CountNoId(_)
CountNoId(msgs) ==
    IF msgs = << >> THEN 0
    ELSE (IF Head(msgs).id = 0 THEN 1 ELSE 0) + CountNoId(Tail(msgs))

\* add_messages gives every message without an id a fresh one.
RECURSIVE AssignIds(_, _)
AssignIds(msgs, n) ==
    IF msgs = << >> THEN << >>
    ELSE IF Head(msgs).id = 0
         THEN << [Head(msgs) EXCEPT !.id = n] >> \o AssignIds(Tail(msgs), n + 1)
         ELSE << Head(msgs) >> \o AssignIds(Tail(msgs), n)

IndexOfId(msgs, id) ==
    IF \E i \in 1..Len(msgs) : msgs[i].id = id
    THEN CHOOSE i \in 1..Len(msgs) : msgs[i].id = id /\ \A j \in 1..(i - 1) : msgs[j].id # id
    ELSE 0

\* The merge of add_messages: a right message whose id is already in the
\* list replaces that message in place, any other is appended.
RECURSIVE MergeById(_, _)
MergeById(left, right) ==
    IF right = << >> THEN left
    ELSE LET m == Head(right)
             i == IndexOfId(left, m.id)
         IN  MergeById(IF i = 0 THEN Append(left, m) ELSE [left EXCEPT ![i] = m],
                       Tail(right))

\* A messages field without a reducer: the update takes the list's place.
add_messages_overwrite(left, right, n) == AssignIds(right, n)

\* add_messages(left, right), the reducer of MessageState.messages; n is
\* the first fresh id (left comes from a checkpoint, so its messages have ids).
add_messages(left, right, n) == MergeById(left, AssignIds(right, n))

Last(msgs) == msgs[Len(msgs)]

\* ------------------------------------------------------------------------
\* The graph: edges and routing
\* ------------------------------------------------------------------------

END == "done"

\* A graph that starts every turn at the assistant.
EntryNodeSkipsGate(v) == IF v = "none" THEN "validate_math" ELSE "assistant"

\* builder.add_edge(START, ...): "assistant" in the MCP graphs,
\* "validate_math" in the 01 graph.
EntryNode(v) == IF v = "gated" THEN "validate_math" ELSE "assistant"

\* A condition that looks for tool calls on a tool message only.
tools_condition_wrong_role(messages) ==
    IF Len(messages) > 0 /\ Last(messages).role = "tool" /\ Len(Last(messages).calls) > 0
    THEN "tools"
    ELSE END

\* tools_condition: "tools" when the last message is an AI message with
\* tool calls, END otherwise.
tools_condition(messages) ==
    IF Len(messages) > 0 /\ Last(messages).role = "ai" /\ Len(Last(messages).calls) > 0
    THEN "tools"
    ELSE END

\* A router that reads the flag the wrong way round.
route_after_validation_inverted(state) ==
    IF state.is_math_question THEN END ELSE "assistant"

\* route_after_validation of the 01 graph.
route_after_validation(state) ==
    IF state.is_math_question THEN "assistant" ELSE END

\* A graph whose tools node is wired to END.
AfterToolsToEnd == END

\* builder.add_edge("tools", "assistant")
AfterTools == "assistant"

Running  == {"validate_math", "assistant", "tools"}
Terminal == {"done", "failed", "cancelled", "recursion_error"}

\* ------------------------------------------------------------------------
\* The tools
\* ------------------------------------------------------------------------

\* add, multiply and divide of the 01 script; divide raises
\* ZeroDivisionError for b = 0 and returns a float otherwise.
LocalToolRun(call) ==
    CASE call.name = "add"      -> [status |-> "ok", kind |-> "int", num |-> call.a + call.b, den |-> 1]
      [] call.name = "multiply" -> [status |-> "ok", kind |-> "int", num |-> call.a * call.b, den |-> 1]
      [] call.name = "divide"   ->
            IF call.b = 0
            THEN [status |-> "raised", kind |-> "ZeroDivisionError", num |-> 0, den |-> 1]
            ELSE [status |-> "ok", kind |-> "float", num |-> call.a, den |-> call.b]
      [] OTHER                  -> [status |-> "raised", kind |-> "invalid_tool", num |-> 0, den |-> 1]

\* What an MCP tool can answer: a result, or an error (a ToolException).
McpOutcomes ==
    { [status |-> "ok", kind |-> "text", num |-> 0, den |-> 1],
      [status |-> "raised", kind |-> "ToolException", num |-> 0, den |-> 1] }

\* A ToolNode that lets the exception of a tool through.
handle_tool_errors_reraise(result) == result

\* ToolNode(tools) keeps its default error handling: an exception of a tool
\* becomes the content of a ToolMessage with status "error".
handle_tool_errors(result) ==
    IF result.status = "raised" THEN [result EXCEPT !.status = "error"] ELSE result

\* A ToolNode that runs the calls of every message of the list.
RECURSIVE PendingCallsOfAll(_)
PendingCallsOfAll(messages) ==
    IF messages = << >> THEN << >>
    ELSE Head(messages).calls \o PendingCallsOfAll(Tail(messages))

\* The calls ToolNode runs: those of the last message.
PendingCalls(messages) == Last(messages).calls

\* A ToolNode that keeps the first tool of a name.
tools_by_name_first(tools) ==
    [n \in { tools[i].name : i \in 1..Len(tools) } |->
        tools[CHOOSE i \in 1..Len(tools) :
                  tools[i].name = n /\ \A j \in 1..(i - 1) : tools[j].name # n]]

\* ToolNode(tools) keeps its tools in a dict by name, filled in the order of
\* the list: of two tools with one name the later one stays.
tools_by_name(tools) ==
    [n \in { tools[i].name : i \in 1..Len(tools) } |->
        tools[CHOOSE i \in 1..Len(tools) :
                  tools[i].name = n /\ \A j \in (i + 1)..Len(tools) : tools[j].name # n]]

\* The runs of ToolNode for these calls: each call goes to the tool its
\* name resolves to, and so to that tool's server.
Dispatched(tools, calls) ==
    [i \in 1..Len(calls) |->
        [id |-> calls[i].id, name |-> calls[i].name,
         server |-> IF calls[i].name \in DOMAIN tools_by_name(tools)
                    THEN tools_by_name(tools)[calls[i].name].server
                    ELSE "none"]]

\* A ToolNode that answers the calls last call first.
ToolNodeOutputReversed(t, calls, raw) ==
    [i \in 1..Len(calls) |->
        ToolMessage(t, calls[Len(calls) + 1 - i], handle_tool_errors(raw[Len(calls) + 1 - i]))]

\* ToolNode: one ToolMessage per call of the last AI message, in the order
\* of the calls; raw[i] is what the i-th tool returned or raised.
ToolNodeOutput(t, calls, raw) ==
    [i \in 1..Len(calls) |-> ToolMessage(t, calls[i], handle_tool_errors(raw[i]))]

\* The results the tools of the variant can give for these calls.
ToolResults(v, calls) ==
    IF v = "gated"
    THEN { [i \in 1..Len(calls) |-> LocalToolRun(calls[i])] }
    ELSE IF engine = "runaway"
         THEN { [i \in 1..Len(calls) |-> [status |-> "ok", kind |-> "text", num |-> 0, den |-> 1]] }
         ELSE [1..Len(calls) -> McpOutcomes]

\* ------------------------------------------------------------------------
\* The context window: truncate_messages_safely and the system prompt
\* ------------------------------------------------------------------------

\* SystemMessage(content=...): system_prompt of create_assistant.  It is
\* built once and never goes through add_messages, so it has no id.
system_prompt ==
    [role |-> "system", id |-> 0, turn |-> 0, calls |-> << >>,
     call_id |-> 0, result |-> NoResult, refusal |-> FALSE]

\* truncate, first rule: the system messages of the history are dropped.
DropSystem(history) == SelectSeq(history, LAMBDA m : m.role # "system")

\* The tool-result messages that answer a call of message m.
IsResultOf(m, r) ==
    /\ r.role = "tool"
    /\ \E i \in 1..Len(m.calls) : m.calls[i].id = r.call_id

\* A rule that drops the oldest message alone, pair or not.
DropOldestAlone(history) == Tail(history)

\* truncate, second rule: the oldest message goes first; an assistant
\* message with tool calls goes together with the results of its calls.
DropOldest(history) ==
    LET m == Head(history)
    IN  IF m.role = "ai" /\ Len(m.calls) > 0
        THEN SelectSeq(Tail(history), LAMBDA r : ~IsResultOf(m, r))
        ELSE Tail(history)

\* A rule that drops the oldest message of any history that has one.
DropToBudgetEager(history, budget) ==
    IF history = << >> THEN history ELSE DropOldest(history)

\* ... until what is left is within the budget, counted in messages.
RECURSIVE DropToBudget(_, _)
DropToBudget(history, budget) ==
    IF Len(history) <= budget THEN history
    ELSE DropToBudget(DropOldest(history), budget)

\* truncate(history, budget) of the Context Window Manager.
truncate(history, budget) == DropToBudget(DropSystem(history), budget)

\* truncate_messages_safely(state.messages): the budget is the function's own.
truncate_messages_safely(messages) == truncate(messages, MaxMessages)

\* An assistant that hands the truncated history over as it is.
LLMInputNoPrompt(v, messages) == truncate_messages_safely(messages)

\* The list the assistant node hands to llm_with_tools: in the MCP graphs
\* [system_prompt] + truncate_messages_safely(state.messages), in the 01
\* script state.messages itself.
LLMInput(v, messages) ==
    IF v = "gated" THEN messages
    ELSE << system_prompt >> \o truncate_messages_safely(messages)

\* ------------------------------------------------------------------------
\* The opaque LLM
\* ------------------------------------------------------------------------

\* The invocations the LLM can ask for, without their call ids: in the MCP
\* graphs a call of the first tool bound, in the 01 script three calls of
\* its local tools.
Invocations(v, tools) ==
    IF v = "gated"
    THEN { [name |-> "add", a |-> 3, b |-> 4],
           [name |-> "divide", a |-> 3, b |-> 4],
           [name |-> "divide", a |-> 3, b |-> 0] }
    ELSE { [name |-> tools[1].name, a |-> 0, b |-> 0] }

WithId(inv, id) == [id |-> id, name |-> inv.name, a |-> inv.a, b |-> inv.b]

\* The tool-call lists an assistant message can carry; ids are fresh.
CallLists(v, tools, n, maxlen) ==
    UNION { { [i \in 1..k |-> WithId(f[i], n + i - 1)] : f \in [1..k -> Invocations(v, tools)] }
            : k \in 0..maxlen }

\* The call a runaway LLM keeps re-issuing ("Add 3 and 4" in the 01 script).
RunawayInvocation(v, tools) ==
    IF v = "gated" THEN [name |-> "add", a |-> 3, b |-> 4]
    ELSE [name |-> tools[1].name, a |-> 0, b |-> 0]

\* What the LLM may answer at this point: a varied LLM gives a final answer
\* or asks for tools (in the model, for at most MaxCalls calls in all);
\* a runaway LLM re-issues one tool call for ever.
LLMAnswers(v, tools, n, callsDone) ==
    IF engine = "runaway"
    THEN { << WithId(RunawayInvocation(v, tools), n) >> }
    ELSE CallLists(v, tools, n, MaxCalls - callsDone)

\* ------------------------------------------------------------------------
\* A turn: one run of the compiled graph under a thread_id
\* ------------------------------------------------------------------------

\* Identifiers (the uuid4 of add_messages, the LLM's message and call ids)
\* are unique: those of a turn are numbered from the turn's own range.
FirstId(t) == t * 100 + 1

\* MessageState() of a thread the checkpointer has never seen.
EmptyState == [messages |-> << >>, is_math_question |-> FALSE]

\* The tool calls the LLM has asked for in the request's turn so far.
RECURSIVE CallsOfTurn(_, _)
CallsOfTurn(msgs, t) ==
    IF msgs = << >> THEN 0
    ELSE (IF Head(msgs).turn = t THEN Len(Head(msgs).calls) ELSE 0) + CallsOfTurn(Tail(msgs), t)

\* ... and in the turns of all requests together.
RECURSIVE SumOver(_, _)
SumOver(f, S) ==
    IF S = {} THEN 0
    ELSE LET x == CHOOSE y \in S : TRUE IN f[x] + SumOver(f, S \ {x})

CallsDone(r) ==
    SumOver([q \in Reqs |-> CallsOfTurn(st[q].messages, turn[q])], Reqs)

\* A handler that starts every turn at once.
SessionFreeNoLock(t, r) == t \in Threads /\ r \in Reqs

\* chat_endpoint_handler runs one turn of a session at a time: a turn starts
\* only when no other turn of the same thread_id is running.
SessionFree(t, r) ==
    \A q \in Reqs \ {r} : ~(pc[q] \in Running /\ thr[q] = t)

\* A checkpointer that keeps one conversation for all thread_ids.
CheckpointShared(t, state) == [u \in Threads |-> state]

\* MemorySaver.put: the checkpoint written last is the thread's latest.
Checkpoint(t, state) == [store EXCEPT ![t] = state]

\* A loop that never counts its steps.
NoRecursionLimit(n) == n >= 0

\* The Pregel loop runs a node only while the turn has used fewer than
\* recursion_limit supersteps.
WithinRecursionLimit(n) == n < RecursionLimit

\* A /chat request (chat_endpoint), or an invoke of the 01 script, arrives.
\* The 01 script is one process: its next invoke comes after the one before
\* has returned or raised.  A runaway LLM is followed on one request only.
Submit(r, t) ==
    /\ boot = "ready"
    /\ pc[r] = "idle"
    /\ r = "r1" => t = "t1"
    /\ r = "r2" => pc["r1"] # "idle"
    /\ (variant = "gated" /\ r = "r2") => pc["r1"] \in Terminal
    /\ engine = "runaway" => r = "r1"
    /\ pc' = [pc EXCEPT ![r] = "queued"]
    /\ thr' = [thr EXCEPT ![r] = t]
    /\ turn' = [turn EXCEPT ![r] = TurnOf(r)]
    /\ uid' = [uid EXCEPT ![r] = FirstId(TurnOf(r))]
    /\ UNCHANGED <<envVars, ctxVars, bootVars, store, st, steps, base, prompt, ran, arg>>

\* The run starts: the thread's latest checkpoint is loaded, the input
\* message goes through add_messages and the input checkpoint is written.
Begin(r) ==
    /\ pc[r] = "queued"
    /\ SessionFree(thr[r], r)
    /\ LET t == thr[r]
           loaded == store[t]
           new == [loaded EXCEPT !.messages =
                       add_messages(loaded.messages, << HumanMessage(turn[r]) >>, uid[r])]
       IN  /\ st' = [st EXCEPT ![r] = new]
           /\ base' = [base EXCEPT ![r] = loaded]
           /\ store' = Checkpoint(t, new)
    /\ uid' = [uid EXCEPT ![r] = @ + 1]
    /\ pc' = [pc EXCEPT ![r] = EntryNode(variant)]
    /\ UNCHANGED <<envVars, ctxVars, bootVars, thr, steps, turn, prompt, ran, arg>>

\* validate_math_question, then route_after_validation (01 script): the
\* node sets is_math_question, appends the refusal to state.messages when
\* the classifier says no, and returns the whole state.
ValidateMath(r) ==
    /\ pc[r] = "validate_math"
    /\ WithinRecursionLimit(steps[r])
    /\ \E is_math \in BOOLEAN :
         LET returned == IF is_math THEN st[r].messages
                         ELSE Append(st[r].messages, RefusalMessage(turn[r]))
             new == [messages |-> add_messages(st[r].messages, returned, uid[r]),
                     is_math_question |-> is_math]
         IN  /\ st' = [st EXCEPT ![r] = new]
             /\ store' = Checkpoint(thr[r], new)
             /\ uid' = [uid EXCEPT ![r] = @ + CountNoId(returned)]
             /\ pc' = [pc EXCEPT ![r] = route_after_validation(new)]
             /\ arg' = [arg EXCEPT ![r] = [messages |-> returned, is_math_question |-> is_math]]
    /\ steps' = [steps EXCEPT ![r] = @ + 1]
    /\ UNCHANGED <<envVars, ctxVars, bootVars, thr, base, turn, prompt, ran>>

\* The 01 assistant assigns the response to state.messages and returns
\* the state it was given; the MCP assistants build a local list and leave
\* state alone.
AssistantArgAfter(v, state, response) ==
    IF v = "gated" THEN [state EXCEPT !.messages = << response >>] ELSE state

\* The assistant node, then tools_condition: the LLM is called with
\* LLMInput and its one response is added to the messages.
Assistant(r) ==
    /\ pc[r] = "assistant"
    /\ WithinRecursionLimit(steps[r])
    /\ \E calls \in LLMAnswers(variant, app_tools, uid[r] + 1, CallsDone(r)) :
         LET response == AIMessage(turn[r], calls, uid[r])
             new == [st[r] EXCEPT !.messages =
                         add_messages(st[r].messages, << response >>, uid[r])]
         IN  /\ st' = [st EXCEPT ![r] = new]
             /\ store' = Checkpoint(thr[r], new)
             /\ uid' = [uid EXCEPT ![r] = @ + 1 + Len(calls)]
             /\ pc' = [pc EXCEPT ![r] = tools_condition(new.messages)]
             /\ arg' = [arg EXCEPT ![r] = AssistantArgAfter(variant, st[r], response)]
    /\ prompt' = [prompt EXCEPT ![r] = LLMInput(variant, st[r].messages)]
    /\ steps' = [steps EXCEPT ![r] = @ + 1]
    /\ UNCHANGED <<envVars, ctxVars, bootVars, thr, base, turn, ran>>

\* The tools node (ToolNode), then the edge back to the assistant.  An
\* exception that ToolNode does not turn into a message leaves the graph:
\* the node writes nothing and the turn is over.
Tools(r) ==
    /\ pc[r] = "tools"
    /\ WithinRecursionLimit(steps[r])
    /\ LET calls == PendingCalls(st[r].messages) IN
       \E raw \in ToolResults(variant, calls) :
         LET out == ToolNodeOutput(turn[r], calls, raw)
             new == [st[r] EXCEPT !.messages = add_messages(st[r].messages, out, uid[r])]
         IN  IF \E i \in 1..Len(out) : out[i].result.status = "raised"
             THEN /\ pc' = [pc EXCEPT ![r] = "failed"]
                  /\ UNCHANGED <<st, store, uid, steps>>
             ELSE /\ st' = [st EXCEPT ![r] = new]
                  /\ store' = Checkpoint(thr[r], new)
                  /\ uid' = [uid EXCEPT ![r] = @ + Len(out)]
                  /\ pc' = [pc EXCEPT ![r] = AfterTools]
                  /\ steps' = [steps EXCEPT ![r] = @ + 1]
    /\ arg' = [arg EXCEPT ![r] = st[r]]
    /\ ran' = [ran EXCEPT ![r] = @ \o Dispatched(app_tools, PendingCalls(st[r].messages))]
    /\ UNCHANGED <<envVars, ctxVars, bootVars, thr, base, turn, prompt>>

\* The LLM call of the assistant node, or of the classifier, raises: the
\* exception leaves the graph and the turn is over.
LLMFails(r) ==
    /\ pc[r] \in {"assistant", "validate_math"}
    /\ WithinRecursionLimit(steps[r])
    /\ pc' = [pc EXCEPT ![r] = "failed"]
    /\ UNCHANGED <<envVars, ctxVars, bootVars, store, thr, st, steps, base, turn, uid, prompt, ran, arg>>

\* The client of a /chat request goes away while the turn waits for the
\* LLM or a tool.
Cancel(r) ==
    /\ variant # "gated"
    /\ pc[r] \in Running
    /\ pc' = [pc EXCEPT ![r] = "cancelled"]
    /\ UNCHANGED <<envVars, ctxVars, bootVars, store, thr, st, steps, base, turn, uid, prompt, ran, arg>>

\* The Pregel loop is out of steps with a node still to run:
\* GraphRecursionError.
RecursionError(r) ==
    /\ pc[r] \in Running
    /\ ~WithinRecursionLimit(steps[r])
    /\ pc' = [pc EXCEPT ![r] = "recursion_error"]
    /\ UNCHANGED <<envVars, ctxVars, bootVars, store, thr, st, steps, base, turn, uid, prompt, ran, arg>>

\* ------------------------------------------------------------------------
\* Specifications
\* ------------------------------------------------------------------------

InitCommon ==
    /\ variant \in Variants
    /\ alive \in SUBSET ServerNames(variant)
    /\ hung \in SUBSET (ServerNames(variant) \ alive)
    /\ listed \in Listings(variant, alive)
    /\ boot = IF variant = "gated" THEN "ready" ELSE "validating"
    /\ vi = 1
    /\ successful_servers = << >>
    /\ app_tools = IF variant = "gated" THEN LocalTools ELSE << >>
    /\ store = [t \in Threads |-> EmptyState]
    /\ pc = [r \in Reqs |-> "idle"]
    /\ thr = [r \in Reqs |-> "t1"]
    /\ st = [r \in Reqs |-> EmptyState]
    /\ steps = [r \in Reqs |-> 0]
    /\ base = [r \in Reqs |-> EmptyState]
    /\ turn = [r \in Reqs |-> 0]
    /\ uid = [r \in Reqs |-> 1]
    /\ prompt = [r \in Reqs |-> << >>]
    /\ ran = [r \in Reqs |-> << >>]
    /\ arg = [r \in Reqs |-> EmptyState]

\* No history is given to truncate on its own while the engine runs.
InitCtxIdle ==
    /\ ctxHistory = << >>
    /\ ctxBudget = MaxMessages
    /\ ctxKept = << >>
    /\ ctxApplied = 0

Init == InitCommon /\ InitCtxIdle /\ engine = "varied"

InitLoop == InitCommon /\ InitCtxIdle /\ engine = "runaway"

Startup == ValidateStep \/ ValidateReturn \/ SetupBuild \/ SetupRaise

Next ==
    \/ Startup
    \/ \E r \in Reqs, t \in Threads : Submit(r, t)
    \/ \E r \in Reqs : Begin(r)
    \/ \E r \in Reqs : ValidateMath(r)
    \/ \E r \in Reqs : Assistant(r)
    \/ \E r \in Reqs : Tools(r)
    \/ \E r \in Reqs : LLMFails(r)
    \/ \E r \in Reqs : Cancel(r)

NextLoop == Next \/ \E r \in Reqs : RecursionError(r)

Spec == Init /\ [][Next]_vars

SpecLoop == InitLoop /\ [][NextLoop]_vars

\* ------------------------------------------------------------------------
\* ------------------------------------------------------------------------
\* truncate on its own: histories of every shape up to MaxLen messages
\* ------------------------------------------------------------------------

\* The kinds of message of a history: a system, a human and a final
\* assistant message, an assistant message with one or with two tool
\* calls, and the result of a tool call.
Kinds == {"system", "human", "ai", "ai_call", "ai_calls", "tool"}

NumCalls(kind) == CASE kind = "ai_call" -> 1 [] kind = "ai_calls" -> 2 [] OTHER -> 0

\* The assistant message a tool result at position j answers: the last one
\* with tool calls before it (0 when there is none).
Caller(kinds, j) ==
    IF \E i \in 1..(j - 1) : NumCalls(kinds[i]) > 0
    THEN CHOOSE i \in 1..(j - 1) :
             NumCalls(kinds[i]) > 0 /\ \A k \in (i + 1)..(j - 1) : NumCalls(kinds[k]) = 0
    ELSE 0

\* The results between that assistant message and position j.
ResultsBefore(kinds, j) ==
    Cardinality({ k \in (Caller(kinds, j) + 1)..(j - 1) : kinds[k] = "tool" })

\* A history holds a tool result only for a call an assistant message
\* before it has made, and one result per call at most.
WellFormed(kinds) ==
    \A j \in 1..Len(kinds) : kinds[j] = "tool" =>
        /\ Caller(kinds, j) # 0
        /\ ResultsBefore(kinds, j) < NumCalls(kinds[Caller(kinds, j)])

\* The message at position i; every message of a history has an id.
MessageAt(kinds, i) ==
    CASE kinds[i] = "system" -> [system_prompt EXCEPT !.id = i]
      [] kinds[i] = "human"  -> [HumanMessage(0) EXCEPT !.id = i]
      [] kinds[i] = "tool"   ->
            [ToolMessage(0, [id |-> 10 * Caller(kinds, i) + ResultsBefore(kinds, i) + 1],
                         [status |-> "ok", kind |-> "text", num |-> 0, den |-> 1])
                EXCEPT !.id = i]
      [] OTHER ->
            AIMessage(0, [c \in 1..NumCalls(kinds[i]) |->
                             [id |-> 10 * i + c, name |-> "tool", a |-> 0, b |-> 0]], i)

HistoryOf(kinds) == [i \in 1..Len(kinds) |-> MessageAt(kinds, i)]

Histories ==
    { HistoryOf(kinds) :
        kinds \in { k \in UNION { [1..n -> Kinds] : n \in 0..MaxLen } : WellFormed(k) } }

runVars == <<store, pc, thr, st, steps, base, turn, uid, prompt, ran, arg>>

\* messages = truncate_messages_safely(state.messages), for a history and a
\* budget of any kind.
TruncateOnce ==
    /\ ctxApplied = 0
    /\ ctxKept' = truncate(ctxHistory, ctxBudget)
    /\ ctxApplied' = 1
    /\ UNCHANGED <<envVars, bootVars, runVars, ctxHistory, ctxBudget>>

\* truncate applied to what truncate returned.
TruncateAgain ==
    /\ ctxApplied = 1
    /\ ctxKept' = truncate(ctxKept, ctxBudget)
    /\ ctxApplied' = 2
    /\ UNCHANGED <<envVars, bootVars, runVars, ctxHistory, ctxBudget>>

InitTruncate ==
    /\ InitCommon
    /\ variant = "main" /\ engine = "varied" /\ alive = {} /\ hung = {}
    /\ listed = [n \in ServerNames(variant) |-> DefaultTool(n)]
    /\ ctxHistory \in Histories
    /\ ctxBudget \in 0..MaxLen
    /\ ctxKept = << >>
    /\ ctxApplied = 0

NextTruncate == TruncateOnce \/ TruncateAgain

SpecTruncate == InitTruncate /\ [][NextTruncate]_vars

\* Properties
\* ------------------------------------------------------------------------

\* A step of node n of request r: the node ran and wrote its update.
NodeStep(r, n) == pc[r] = n /\ steps'[r] = steps[r] + 1

IsPrefix(s, t) == Len(s) <= Len(t) /\ SubSeq(t, 1, Len(s)) = s

\* The messages of a list that turn t produced.
OfTurn(msgs, t) == SelectSeq(msgs, LAMBDA m : m.turn = t)

\* C1: in every variant a step of the tools node is followed by the
\* assistant node, never by END, so the state of a completed, non-refused
\* turn (and the checkpoint it leaves) ends with an AI message and never
\* with a tool message.
C1_ToolsReturnToAssistant ==
    /\ [][\A r \in Reqs : NodeStep(r, "tools") => pc'[r] = "assistant"]_vars
    /\ [][\A r \in Reqs : (pc[r] = "tools" /\ pc'[r] = "done") => FALSE]_vars
    /\ [](\A r \in Reqs : pc[r] = "done" =>
             /\ Last(st[r].messages).role = "ai"
             /\ Len(Last(st[r].messages).calls) = 0
             /\ Last(st[r].messages).turn = turn[r])

\* A turn that ran the tools node and then completed.
C1_Witness ==
    \E r \in Reqs :
        /\ pc[r] = "done"
        /\ \E i \in 1..Len(st[r].messages) :
               st[r].messages[i].role = "tool" /\ st[r].messages[i].turn = turn[r]

\* C2: after a step of the assistant node the turn is at END exactly when
\* the AI message just added carries no tool call and at the tools node
\* exactly when it carries one or more; the assistant has no other successor.
C2_AssistantSuccessor ==
    [][\A r \in Reqs : NodeStep(r, "assistant") =>
          LET m == Last(st'[r].messages) IN
            /\ m.role = "ai" /\ m.turn = turn[r]
            /\ Len(st'[r].messages) = Len(st[r].messages) + 1
            /\ pc'[r] \in {"done", "tools"}
            /\ (pc'[r] = "done") <=> (Len(m.calls) = 0)
            /\ (pc'[r] = "tools") <=> (Len(m.calls) >= 1)]_vars

\* One request at the tools node with calls pending while another has
\* finished on an answer without calls.
C2_Witness ==
    \E r, q \in Reqs :
        /\ pc[r] = "tools" /\ Len(Last(st[r].messages).calls) >= 1
        /\ pc[q] = "done" /\ Len(Last(st[q].messages).calls) = 0

\* The servers of a list, and the servers the tools of a list come from.
NamesOf(servers) == { servers[i].name : i \in 1..Len(servers) }
ServersOf(tools) == { tools[i].server : i \in 1..Len(tools) }

C4_ValidateServers ==
    /\ boot \in {"validating", "validated", "ready", "config_error"}
    /\ boot = "validating" =>
          successful_servers =
              SelectSeq(SubSeq(all_servers(variant), 1, vi - 1), LAMBDA s : s.name \in alive)
    /\ (boot \in {"validated", "ready", "config_error"} /\ variant # "gated") =>
          /\ vi = Len(all_servers(variant)) + 1
          /\ successful_servers =
                 SelectSeq(all_servers(variant), LAMBDA s : s.name \in alive)

\* main.py: the second server failed, the first and the third are returned.
C4_Witness ==
    /\ variant = "main"
    /\ boot = "validated"
    /\ alive = {"local_math", "office_word"}
    /\ Len(successful_servers) = 2
    /\ successful_servers[2].name = "office_word"

\* C5: in the 01 graph a question the classifier marks as non-math takes
\* the turn straight to END with exactly one refusal message added and
\* neither assistant nor tools ever run in it; a question marked as math
\* adds no message and takes the turn to the assistant.
C5_MathGate ==
    /\ [][\A r \in Reqs : NodeStep(r, "validate_math") =>
            IF st'[r].is_math_question
            THEN /\ pc'[r] = "assistant"
                 /\ st'[r].messages = st[r].messages
            ELSE /\ pc'[r] = "done"
                 /\ Len(st'[r].messages) = Len(st[r].messages) + 1
                 /\ IsPrefix(st[r].messages, st'[r].messages)
                 /\ Last(st'[r].messages).refusal
                 /\ Last(st'[r].messages).role = "ai"]_vars
    /\ [](\A r \in Reqs :
            (variant = "gated" /\ pc[r] \in Running \cup Terminal /\ steps[r] >= 1
                /\ ~st[r].is_math_question) =>
                /\ pc[r] = "done"
                /\ steps[r] = 1
                /\ Len(OfTurn(st[r].messages, turn[r])) = 2
                /\ OfTurn(st[r].messages, turn[r])[1].role = "human"
                /\ OfTurn(st[r].messages, turn[r])[2].refusal)
    /\ [](\A r \in Reqs :
            (pc[r] \in Running \cup Terminal /\ st[r].is_math_question) =>
                \A i \in 1..Len(st[r].messages) :
                    st[r].messages[i].turn = turn[r] => ~st[r].messages[i].refusal)

\* A second turn of a thread refused, after a first turn that used tools.
C5_Witness ==
    /\ variant = "gated"
    /\ pc["r2"] = "done"
    /\ thr["r2"] = "t1"
    /\ Last(st["r2"].messages).refusal
    /\ \E i \in 1..Len(st["r2"].messages) : st["r2"].messages[i].role = "tool"

\* C6: when the LLM fails or the request is cancelled, the conversation the
\* checkpointer holds for the thread is what it was before the turn began.
C6_AbortLeavesNoTrace ==
    [][\A r \in Reqs :
          (pc[r] \in Running /\ pc'[r] \in {"failed", "cancelled"}) =>
              store'[thr[r]] = base[r]]_vars

\* The tool-calling cycles of a turn: its AI messages that carry calls.
CyclesOfTurn(msgs, t) ==
    Len(SelectSeq(msgs, LAMBDA m : m.turn = t /\ m.role = "ai" /\ Len(m.calls) > 0))

\* C7: a turn runs at most RecursionLimit supersteps, so at most
\* (RecursionLimit + 1) \div 2 assistant/tools cycles; with an LLM that keeps
\* re-issuing a tool call the turn ends in GraphRecursionError, an error of
\* the turn raised with the graph built, not the RuntimeError of startup.
C7_BoundedCycles ==
    \A r \in Reqs :
        /\ steps[r] <= RecursionLimit
        /\ CyclesOfTurn(st[r].messages, turn[r]) <= (RecursionLimit + 1) \div 2
        /\ Len(OfTurn(st[r].messages, turn[r])) <= RecursionLimit + 1
        /\ (pc[r] \in Running /\ steps[r] = RecursionLimit) => ENABLED RecursionError(r)
        /\ pc[r] = "recursion_error" =>
              /\ steps[r] = RecursionLimit
              /\ boot = "ready"

\* A runaway turn, stopped by the recursion limit.
C7_Witness ==
    \E r \in Reqs :
        /\ pc[r] = "recursion_error"
        /\ CyclesOfTurn(st[r].messages, turn[r]) >= (RecursionLimit - 1) \div 2

\* The tool messages of a list that answer call id c.
AnswersTo(msgs, c) == SelectSeq(msgs, LAMBDA m : m.role = "tool" /\ m.call_id = c)

\* C8: a tool that raises or answers with an error does not end the turn:
\* the tools node adds a tool message with status "error" for that call id
\* (ZeroDivisionError for divide with b = 0) and hands over to the
\* assistant; no call id is ever answered, that is run, twice.
C8_ToolErrorBecomesMessage ==
    /\ [][\A r \in Reqs : pc[r] = "tools" => pc'[r] \in {"tools", "assistant", "cancelled"}]_vars
    /\ [][\A r \in Reqs : NodeStep(r, "tools") =>
            \A i \in 1..Len(PendingCalls(st[r].messages)) :
                LET c == PendingCalls(st[r].messages)[i]
                    a == AnswersTo(st'[r].messages, c.id)
                IN  /\ Len(a) = 1
                    /\ a[1].result.status \in {"ok", "error"}
                    /\ (variant = "gated" /\ c.name = "divide" /\ c.b = 0) =>
                           /\ a[1].result.status = "error"
                           /\ a[1].result.kind = "ZeroDivisionError"]_vars
    /\ [](\A r \in Reqs : \A i \in 1..Len(st[r].messages) :
            st[r].messages[i].role = "tool" =>
                Len(AnswersTo(st[r].messages, st[r].messages[i].call_id)) = 1)

\* divide(3, 0) raised, its error is in the history and the assistant is next.
C8_Witness ==
    \E r \in Reqs :
        /\ variant = "gated"
        /\ pc[r] = "assistant"
        /\ Last(st[r].messages).role = "tool"
        /\ Last(st[r].messages).result.status = "error"
        /\ Last(st[r].messages).result.kind = "ZeroDivisionError"

\* C9: for an AI message with n >= 1 tool calls, the step of the tools node
\* appends exactly n tool messages, the i-th carrying the id of the i-th
\* call, whatever the calls' outcomes.
C9_OneResultPerCallInOrder ==
    [][\A r \in Reqs : NodeStep(r, "tools") =>
          LET calls == PendingCalls(st[r].messages)
              n == Len(calls)
              k == Len(st[r].messages)
          IN  /\ n >= 1
              /\ Len(st'[r].messages) = k + n
              /\ SubSeq(st'[r].messages, 1, k) = st[r].messages
              /\ \A i \in 1..n :
                    /\ st'[r].messages[k + i].role = "tool"
                    /\ st'[r].messages[k + i].call_id = calls[i].id
              /\ \A i, j \in 1..n : i # j => calls[i].id # calls[j].id]_vars

\* Two calls of one message answered in order, the first failed, the second
\* succeeded.
C9_Witness ==
    \E r \in Reqs :
        /\ pc[r] = "assistant"
        /\ Len(st[r].messages) >= 3
        /\ LET k == Len(st[r].messages) IN
              /\ Len(st[r].messages[k - 2].calls) = 2
              /\ st[r].messages[k - 1].call_id = st[r].messages[k - 2].calls[1].id
              /\ st[r].messages[k].call_id = st[r].messages[k - 2].calls[2].id
              /\ st[r].messages[k - 1].result.status = "error"
              /\ st[r].messages[k].result.status = "ok"

\* C10: the turns of one thread_id run one at a time: no two of them are
\* inside the graph together, a running turn's state is the thread's latest
\* checkpoint, and a checkpoint only ever extends the thread's conversation,
\* so no committed message is lost or overwritten.
C10_SessionTurnsSerialized ==
    /\ [](\A r, q \in Reqs :
            (r # q /\ pc[r] \in Running /\ pc[q] \in Running) => thr[r] # thr[q])
    /\ [](\A r \in Reqs : pc[r] \in Running => store[thr[r]] = st[r])
    /\ [][\A t \in Threads : IsPrefix(store[t].messages, store'[t].messages)]_vars

\* Two requests for one thread_id at the same time: one runs, one waits.
C10_Witness ==
    \E r, q \in Reqs :
        /\ r # q
        /\ thr[r] = thr[q]
        /\ pc[r] = "tools"
        /\ pc[q] = "queued"

\* The requests that have named thread t.
ReqsOf(t) == { r \in Reqs : pc[r] # "idle" /\ thr[r] = t }

\* C11: every message in the checkpoint of a thread_id, and every message a
\* running turn holds, was produced by a turn submitted under that same
\* thread_id; a step of a turn leaves the checkpoint of every other
\* thread_id as it was.
C11_SessionIsolation ==
    /\ [](\A t \in Threads : \A i \in 1..Len(store[t].messages) :
            \E r \in ReqsOf(t) : store[t].messages[i].turn = TurnOf(r))
    /\ [](\A r \in Reqs : \A i \in 1..Len(st[r].messages) :
            \E q \in ReqsOf(thr[r]) : st[r].messages[i].turn = TurnOf(q))
    /\ [][\A r \in Reqs : (pc[r] \in Running /\ pc'[r] # pc[r]) =>
            \A t \in Threads \ {thr[r]} : store'[t] = store[t]]_vars
    /\ [][\A r \in Reqs : pc[r] = "queued" /\ pc'[r] # "queued" =>
            base'[r] = store[thr[r]]]_vars

\* Two turns under two thread_ids inside the graph together, each with
\* tool results checkpointed.
C11_Witness ==
    /\ thr["r1"] = "t1" /\ thr["r2"] = "t2"
    /\ pc["r1"] = "assistant" /\ pc["r2"] = "assistant"
    /\ Len(store["t1"].messages) >= 3 /\ Len(store["t2"].messages) >= 3
    /\ Last(store["t1"].messages).role = "tool"
    /\ Last(store["t2"].messages).role = "tool"

\* C12: a server whose probe never returns does not keep validate_servers
\* from going on: while validation is under way the loop can always take its
\* next step, the probe of the next server or the return, and every server
\* that does not hang has its outcome decided.
C12_HangingProbeIsolated ==
    /\ boot = "validating" => ENABLED (ValidateStep \/ ValidateReturn)
    /\ (boot = "validating" /\ ~ENABLED Startup) =>
           \A i \in 1..Len(all_servers(variant)) :
               ~ProbeHangs(all_servers(variant)[i]) => i < vi

\* A list has no orphaned tool result: every tool message in it comes after
\* an assistant message of the list that made its call.
NoOrphan(msgs) ==
    \A j \in 1..Len(msgs) : msgs[j].role = "tool" =>
        \E i \in 1..(j - 1) : msgs[i].role = "ai" /\ IsResultOf(msgs[i], msgs[j])

Contains(msgs, m) == \E i \in 1..Len(msgs) : msgs[i] = m

\* C13: what truncate returns, for every history and budget, has no
\* orphaned tool result: an assistant message with tool calls and the
\* results of its calls are kept together or dropped together.
C13_NoOrphanedToolResult ==
    ctxApplied >= 1 =>
        /\ NoOrphan(ctxKept)
        /\ \A i, j \in 1..Len(ctxHistory) :
              IsResultOf(ctxHistory[i], ctxHistory[j]) =>
                  (Contains(ctxKept, ctxHistory[i]) <=> Contains(ctxKept, ctxHistory[j]))

\* A history over budget by one, with a call and its result the oldest:
\* both are gone, what is left is under the budget and not empty.
C13_Witness ==
    /\ ctxApplied = 1
    /\ Len(DropSystem(ctxHistory)) = ctxBudget + 1
    /\ Len(ctxKept) = ctxBudget - 1
    /\ ctxKept # << >>
    /\ \E j \in 1..Len(ctxHistory) :
          ctxHistory[j].role = "tool" /\ ~Contains(ctxKept, ctxHistory[j])

HasSystem(msgs) == \E i \in 1..Len(msgs) : msgs[i].role = "system"

\* C14 as stated: truncate returns every history that is within the budget
\* as it is, and truncating twice gives what truncating once gives.
C14_IdempotentOnEveryHistoryInBudget ==
    /\ (ctxApplied = 1 /\ Len(ctxHistory) <= ctxBudget) => ctxKept = ctxHistory
    /\ ctxApplied = 2 => ctxKept = truncate(ctxHistory, ctxBudget)

\* C14, amended: truncate returns a history as it is when the history is
\* within the budget and holds no system message; of any history within the
\* budget it returns the non-system messages, in order; and for every
\* history, system messages or not, truncating what truncate returned
\* changes nothing.
C14_IdempotentOnCompliantHistory ==
    /\ (ctxApplied = 1 /\ Len(ctxHistory) <= ctxBudget /\ ~HasSystem(ctxHistory)) =>
           ctxKept = ctxHistory
    /\ (ctxApplied = 1 /\ Len(ctxHistory) <= ctxBudget) =>
           ctxKept = SelectSeq(ctxHistory, LAMBDA m : m.role # "system")
    /\ ctxApplied >= 1 =>
           /\ Len(ctxKept) <= ctxBudget
           /\ ~HasSystem(ctxKept)
           /\ truncate(ctxKept, ctxBudget) = ctxKept
    /\ ctxApplied = 2 => ctxKept = truncate(ctxHistory, ctxBudget)

\* truncate applied twice to a history over budget that holds a system
\* message and keeps some of its messages.
C14_Witness ==
    /\ ctxApplied = 2
    /\ HasSystem(ctxHistory)
    /\ Len(DropSystem(ctxHistory)) > ctxBudget
    /\ ctxKept # << >>

\* The positions of the tools of a list that go by name n.
Named(tools, n) == { i \in 1..Len(tools) : tools[i].name = n }

Max(S) == CHOOSE x \in S : \A y \in S : y <= x

\* C15: the tools node resolves every tool name to one tool, that of the
\* server validated last among those that list the name, and every call it
\* runs goes to that server; a server before it that lists the same name
\* never gets the call.
C15_LastRegisteredWins ==
    /\ boot = "ready" =>
          /\ DOMAIN tools_by_name(app_tools) = { app_tools[i].name : i \in 1..Len(app_tools) }
          /\ \A n \in DOMAIN tools_by_name(app_tools) :
                tools_by_name(app_tools)[n] = app_tools[Max(Named(app_tools, n))]
    /\ \A r \in Reqs : \A k \in 1..Len(ran[r]) :
          /\ Named(app_tools, ran[r][k].name) # {}
          /\ ran[r][k].server = app_tools[Max(Named(app_tools, ran[r][k].name))].server
          /\ \A i \in Named(app_tools, ran[r][k].name) :
                i < Max(Named(app_tools, ran[r][k].name)) =>
                    ran[r][k].server # app_tools[i].server

\* local_math and office_word both list "multiply", and a call of it has run.
C15_Witness ==
    /\ variant = "main"
    /\ Cardinality(Named(app_tools, "multiply")) = 2
    /\ \E r \in Reqs : \E k \in 1..Len(ran[r]) :
          ran[r][k].name = "multiply" /\ ran[r][k].server = "office_word"

SystemCount(msgs) == Len(SelectSeq(msgs, LAMBDA m : m.role = "system"))

\* C16: in the MCP graphs the list every step of the assistant node hands
\* to the LLM has exactly one system message, system_prompt itself, as its
\* first element, followed by messages of the thread's conversation; the
\* system message is never stored, so none builds up from step to step or
\* from turn to turn.
C16_OneSystemMessageFirst ==
    /\ [][\A r \in Reqs : (variant # "gated" /\ NodeStep(r, "assistant")) =>
            /\ prompt'[r] # << >>
            /\ prompt'[r][1] = system_prompt
            /\ SystemCount(prompt'[r]) = 1
            /\ Tail(prompt'[r]) = truncate_messages_safely(st[r].messages)
            /\ \A i \in 2..Len(prompt'[r]) : Contains(st[r].messages, prompt'[r][i])]_vars
    /\ [](\A r \in Reqs : (variant # "gated" /\ prompt[r] # << >>) =>
            /\ prompt[r][1] = system_prompt
            /\ SystemCount(prompt[r]) = 1)
    /\ [](\A t \in Threads : SystemCount(store[t].messages) = 0)
    /\ [](\A r \in Reqs : SystemCount(st[r].messages) = 0)

\* The second turn of a thread, at its second call of the LLM: the history
\* is over the budget and the list handed over starts with system_prompt.
C16_Witness ==
    /\ variant = "main"
    /\ thr["r2"] = "t1"
    /\ pc["r2"] = "done"
    /\ steps["r2"] >= 3
    /\ Len(st["r2"].messages) > MaxMessages + 1
    /\ Len(prompt["r2"]) = MaxMessages + 1
    /\ prompt["r2"][1] = system_prompt

\* C17: in every variant a step of the assistant node leaves the state
\* object it was called with as it was, and the conversation grows by
\* exactly one message, the assistant message the LLM returned.
C17_AssistantLeavesInput ==
    [][\A r \in Reqs : NodeStep(r, "assistant") =>
          /\ arg'[r] = st[r]
          /\ Len(st'[r].messages) = Len(st[r].messages) + 1
          /\ IsPrefix(st[r].messages, st'[r].messages)
          /\ Last(st'[r].messages).role = "ai"
          /\ Last(st'[r].messages).turn = turn[r]]_vars

\* What a step added to a list: the part of the new list after the old one.
Added(old, new) == SubSeq(new, Len(old) + 1, Len(new))

IdsOf(msgs) == { msgs[i].id : i \in 1..Len(msgs) }

\* C18: every step of a turn leaves the thread's stored messages as they
\* were and puts its new messages, the turn's own, after them: one human
\* message at the start, one assistant message per assistant step, the tool
\* messages in call order per tools step.  What the assistant hands to the
\* LLM, truncated and with the system message in front, is stored nowhere.
C18_StoredConversationAppendOnly ==
    /\ [][\A r \in Reqs : (pc[r] \in Running \cup {"queued"} /\ pc'[r] # pc[r]) =>
            LET old == store[thr[r]].messages
                new == store'[thr[r]].messages
            IN  /\ IsPrefix(old, new)
                /\ \A i \in 1..Len(Added(old, new)) :
                      /\ Added(old, new)[i].turn = turn[r]
                      /\ Added(old, new)[i].role # "system"
                      /\ Added(old, new)[i].id \notin IdsOf(old)]_vars
    /\ [][\A r \in Reqs : NodeStep(r, "assistant") =>
            /\ store'[thr[r]].messages = Append(store[thr[r]].messages, Last(st'[r].messages))
            /\ Last(st'[r].messages).role = "ai"
            /\ store'[thr[r]].messages # prompt'[r]]_vars
    /\ [][\A r \in Reqs : NodeStep(r, "tools") =>
            /\ Len(Added(store[thr[r]].messages, store'[thr[r]].messages))
                  = Len(PendingCalls(st[r].messages))
            /\ \A i \in 1..Len(PendingCalls(st[r].messages)) :
                  Added(store[thr[r]].messages, store'[thr[r]].messages)[i].call_id
                      = PendingCalls(st[r].messages)[i].id]_vars
    /\ [][\A r \in Reqs : (pc[r] = "queued" /\ pc'[r] # "queued") =>
            /\ Len(Added(store[thr[r]].messages, store'[thr[r]].messages)) = 1
            /\ Last(store'[thr[r]].messages).role = "human"]_vars

\* The LLM was given less than the history, and the thread's stored
\* conversation still holds all of it, from the first turn's question on.
C18_Witness ==
    \E r \in Reqs :
        /\ variant # "gated"
        /\ pc[r] = "done"
        /\ Len(prompt[r]) < Len(st[r].messages)
        /\ Len(store[thr[r]].messages) > MaxMessages + 1
        /\ store[thr[r]].messages[1].role = "human"
        /\ store[thr[r]].messages[1].turn = 1
        /\ turn[r] = 2

\* C19: in a turn no call id is run twice: a step of the tools node runs the
\* calls of the last message, an assistant message of the turn, each once
\* and in order, and none of them has been run before; the calls of earlier
\* assistant messages, answered already, are not run again.
C19_CallRunAtMostOnce ==
    /\ [](\A r \in Reqs : \A i, j \in 1..Len(ran[r]) :
            ran[r][i].id = ran[r][j].id => i = j)
    /\ [][\A r \in Reqs : (pc[r] = "tools" /\ pc'[r] # "tools" /\ pc'[r] # "cancelled") =>
            LET m == Last(st[r].messages)
                now == Added(ran[r], ran'[r])
            IN  /\ m.role = "ai" /\ m.turn = turn[r]
                /\ IsPrefix(ran[r], ran'[r])
                /\ Len(now) = Len(m.calls)
                /\ \A i \in 1..Len(now) :
                      /\ now[i].id = m.calls[i].id
                      /\ AnswersTo(st[r].messages, now[i].id) = << >>
                      /\ \A k \in 1..Len(ran[r]) : ran[r][k].id # now[i].id]_vars
    /\ [][\A r \in Reqs : (pc[r] # "tools" \/ pc'[r] = "cancelled") => ran'[r] = ran[r]]_vars

\* A turn of two cycles: the calls of two assistant messages, each run once.
C19_Witness ==
    \E r \in Reqs :
        /\ pc[r] = "done"
        /\ Len(ran[r]) = 2
        /\ CyclesOfTurn(st[r].messages, turn[r]) = 2
        /\ Len(AnswersTo(st[r].messages, ran[r][1].id)) = 1
        /\ Len(AnswersTo(st[r].messages, ran[r][2].id)) = 1

\* C20: in the 01 graph every turn starts at the classifier, which runs as
\* the turn's first step and is entered from nowhere else, so it runs once
\* and before any step of the assistant; the turn goes on to the assistant
\* exactly when this run said "math", whatever is_math_question the thread's
\* checkpoint held from the turn before.  The MCP graphs have no classifier.
C20_ClassifierOncePerTurn ==
    /\ [][\A r \in Reqs : (variant = "gated" /\ pc[r] = "queued" /\ pc'[r] # "queued") =>
            /\ pc'[r] = "validate_math"
            /\ st'[r].is_math_question = base'[r].is_math_question]_vars
    /\ [][\A r \in Reqs : (pc'[r] = "validate_math" /\ pc[r] # "validate_math") =>
            pc[r] = "queued"]_vars
    /\ [](\A r \in Reqs : pc[r] = "validate_math" => (variant = "gated" /\ steps[r] = 0))
    /\ [](\A r \in Reqs : (variant = "gated" /\ pc[r] \in {"assistant", "tools", "done"}) =>
            steps[r] >= 1)
    /\ [][\A r \in Reqs : NodeStep(r, "validate_math") =>
            /\ steps'[r] = 1
            /\ pc'[r] = (IF st'[r].is_math_question THEN "assistant" ELSE "done")]_vars
    /\ [](\A r \in Reqs : (variant = "gated" /\ pc[r] \in {"assistant", "tools"}) =>
            st[r].is_math_question)
    /\ [](\A r \in Reqs : (variant = "gated" /\ pc[r] = "done") =>
            (st[r].is_math_question <=> steps[r] >= 2))

\* The second turn of a thread is refused though the checkpoint of the
\* first turn says "math".
C20_Witness ==
    /\ variant = "gated"
    /\ thr["r2"] = "t1"
    /\ base["r2"].is_math_question
    /\ pc["r2"] = "done"
    /\ steps["r2"] = 1
    /\ ~st["r2"].is_math_question
    /\ ~store["t1"].is_math_question

====
